---- MODULE Spec2Model ----
(***************************************************************************)
(* Model of the filter_ip tool of ip-filter-mcp (ipFilterTool.ts): the     *)
(* Tor exit node cache (torExitNodes, lastTorFetch, fetchTorExitNodes),    *)
(* isTorExitNode, isInCIDRRange and ipFilterTool.execute.                  *)
(*                                                                         *)
(* JavaScript strings are sequences of one-character strings, so that      *)
(* parsing, splitting and joining are computed and not assumed.  The       *)
(* ipaddr.js calls of the source are modelled by what the library does on  *)
(* the textual forms that occur in Texts below: dotted-quad IPv4 with      *)
(* decimal, octal and hexadecimal parts, native and "::"-compressed IPv6,  *)
(* and IPv6 with a trailing dotted quad.  Zone indices ("%eth0"), the      *)
(* one-, two- and three-part IPv4 forms and numbers above 2^31 do not      *)
(* occur in Texts and are not modelled.                                    *)
(***************************************************************************)
EXTENDS Integers, Sequences, FiniteSets, TLC

----------------------------------------------------------------------------
(* Strings *)

DecChars == {"0", "1", "2", "3", "4", "5", "6", "7", "8", "9"}
OctChars == {"0", "1", "2", "3", "4", "5", "6", "7"}
HexDigits == <<"0", "1", "2", "3", "4", "5", "6", "7", "8", "9",
               "a", "b", "c", "d", "e", "f">>
HexUpper == <<"0", "1", "2", "3", "4", "5", "6", "7", "8", "9",
              "A", "B", "C", "D", "E", "F">>
HexChars == {HexDigits[i] : i \in 1..16} \cup {HexUpper[i] : i \in 1..16}
WhiteSpace == {" ", "\t", "\n"}

\* The value of one digit, as parseInt reads it (case-insensitive).
DigitValue(c) ==
    (CHOOSE i \in 1..16 : HexDigits[i] = c \/ HexUpper[i] = c) - 1

AllIn(s, S) == \A i \in DOMAIN s : s[i] \in S

\* parseInt(s, base) of a string of digits of that base.
RECURSIVE ParseInt(_, _)
ParseInt(s, base) ==
    IF s = <<>> THEN 0
    ELSE ParseInt(SubSeq(s, 1, Len(s) - 1), base) * base + DigitValue(s[Len(s)])

\* String(n) for a natural number n.
RECURSIVE NumberToString(_)
NumberToString(n) ==
    IF n < 10 THEN <<HexDigits[n + 1]>>
    ELSE NumberToString(n \div 10) \o <<HexDigits[(n % 10) + 1]>>

\* s.includes(c) for a one-character c.
Includes(s, c) == \E i \in DOMAIN s : s[i] = c

\* s.startsWith(p)
StartsWith(s, p) == Len(s) >= Len(p) /\ SubSeq(s, 1, Len(p)) = p

EndsWith(s, p) ==
    Len(s) >= Len(p) /\ SubSeq(s, Len(s) - Len(p) + 1, Len(s)) = p

\* s.split(c) for a one-character separator c.
RECURSIVE Split(_, _)
Split(s, c) ==
    IF ~Includes(s, c) THEN <<s>>
    ELSE LET i == CHOOSE k \in DOMAIN s :
                     s[k] = c /\ \A j \in 1..(k - 1) : s[j] # c
         IN  <<SubSeq(s, 1, i - 1)>> \o Split(SubSeq(s, i + 1, Len(s)), c)

\* s.trim()
RECURSIVE Trim(_)
Trim(s) ==
    IF s = <<>> THEN s
    ELSE IF s[1] \in WhiteSpace THEN Trim(Tail(s))
    ELSE IF s[Len(s)] \in WhiteSpace THEN Trim(SubSeq(s, 1, Len(s) - 1))
    ELSE s

\* list.join(sep)
RECURSIVE Join(_, _)
Join(list, sep) ==
    IF list = <<>> THEN <<>>
    ELSE IF Len(list) = 1 THEN list[1]
    ELSE list[1] \o sep \o Join(Tail(list), sep)

----------------------------------------------------------------------------
(* ipaddr.js, as the source calls it *)

\* A call that throws yields Null.
Null == [kind |-> "invalid"]
NaN == -1

\* The digits of a base: 0-7, 0-9 or 0-9a-f in either case.
DigitsOf(base) ==
    {HexDigits[i] : i \in 1..base} \cup {HexUpper[i] : i \in 1..base}

\* 0x[a-f0-9]+, case-insensitive.
IsHexLiteral(s) ==
    /\ Len(s) >= 3
    /\ s[1] = "0"
    /\ s[2] \in {"x", "X"}
    /\ AllIn(SubSeq(s, 3, Len(s)), HexChars)

\* ipv4Part: (0?\d+|0x[a-f0-9]+), case-insensitive.
IsIPv4Part(s) == (Len(s) >= 1 /\ AllIn(s, DecChars)) \/ IsHexLiteral(s)

\* parseInt(digits, base) when every character is a digit of the base,
\* else NaN.
RadixValue(digits, base) ==
    IF digits # <<>> /\ AllIn(digits, DigitsOf(base))
    THEN ParseInt(digits, base) ELSE NaN

\* The base parseIntAuto reads s in: 16 after 0x, 8 after a leading 0
\* that a digit follows, else 10.
AutoBase(s, hex) ==
    IF hex THEN 16
    ELSE IF Len(s) >= 2 /\ s[1] = "0" /\ s[2] \in DecChars THEN 8
    ELSE 10

AutoValue(s, base) ==
    RadixValue(IF base = 16 THEN SubSeq(s, 3, Len(s)) ELSE s, base)

\* parseIntAuto: NaN stands for the throw on a malformed octal number.
parseIntAuto(s) == AutoValue(s, AutoBase(s, IsHexLiteral(s)))

\* The IPv4 constructor: four octets in 0..255, else it throws.
IPv4(octets) ==
    IF Len(octets) = 4 /\ \A i \in 1..4 : octets[i] >= 0 /\ octets[i] <= 255
    THEN [kind |-> "ipv4", octets |-> octets]
    ELSE Null

\* ipv4Regexes.fourOctet on the fields between the dots.
IsFourOctet(fields) ==
    Len(fields) = 4 /\ \A i \in 1..4 : IsIPv4Part(fields[i])

IPv4FromFields(fields, fourOctet) ==
    IF fourOctet
    THEN IPv4([i \in 1..4 |-> parseIntAuto(fields[i])])
    ELSE Null

IPv4FromSplit(fields) == IPv4FromFields(fields, IsFourOctet(fields))

\* ipaddr.IPv4.parse: the four-octet form.
IPv4Parse(s) == IPv4FromSplit(Split(s, "."))

\* The positions of "::" in s.
DoubleColons(s) == {i \in 1..(Len(s) - 1) : s[i] = ":" /\ s[i + 1] = ":"}

\* expandIPv6's colonCount: the colons of s, less one for a leading and
\* one for a trailing "::".
ColonCount(s) ==
    Cardinality({i \in DOMAIN s : s[i] = ":"})
        - (IF StartsWith(s, <<":", ":">>) THEN 1 ELSE 0)
        - (IF EndsWith(s, <<":", ":">>) THEN 1 ELSE 0)

\* s with its "::" replaced by ":" and n times "0:".
InsertZeroes(s, doubles, n) ==
    IF doubles = {} THEN s
    ELSE SubSeq(s, 1, (CHOOSE k \in doubles : TRUE) - 1)
             \o <<":">> \o [i \in 1..(2 * n) |-> IF i % 2 = 1 THEN "0" ELSE ":"]
             \o SubSeq(s, (CHOOSE k \in doubles : TRUE) + 2, Len(s))

\* s without one leading and one trailing colon.
StripColons(s) ==
    SubSeq(s, IF s # <<>> /\ s[1] = ":" THEN 2 ELSE 1,
              IF Len(s) >= 2 /\ s[Len(s)] = ":" THEN Len(s) - 1 ELSE Len(s))

\* parseInt(piece, 16) of every piece between the colons.
HexParts(pieces) ==
    [kind |-> "parts",
     parts |-> [i \in 1..Len(pieces) |-> RadixValue(pieces[i], 16)]]

ExpandCounted(s, parts, doubles, colonCount) ==
    IF Cardinality(doubles) > 1 \/ colonCount > parts THEN Null
    ELSE HexParts(Split(StripColons(InsertZeroes(s, doubles, parts - colonCount)),
                        ":"))

\* expandIPv6(string, parts): the numbers between the colons once "::" is
\* replaced by the missing zeroes; Null when there is a second "::" or
\* there are too many colons.
expandIPv6(s, parts) == ExpandCounted(s, parts, DoubleColons(s), ColonCount(s))

\* ipv6Regexes.native without a zone index.  Together with expandIPv6's
\* refusal of a second "::" this is: hexadecimal digits and colons only, not
\* starting with a single colon.
IPv6NativeTest(s) ==
    /\ AllIn(s, HexChars \cup {":"})
    /\ s = <<>> \/ s[1] \in HexChars \/ StartsWith(s, <<":", ":">>)

\* The index of the last colon of s, 0 if there is none.
LastColon(s) ==
    IF \A k \in DOMAIN s : s[k] # ":" THEN 0
    ELSE CHOOSE k \in DOMAIN s : s[k] = ":" /\ \A j \in (k + 1)..Len(s) : s[j] # ":"

\* parseInt of one ipv4Part of the transitional form: 0x is hexadecimal,
\* everything else decimal.
TransitionalOctet(field, hex) ==
    RadixValue(IF hex THEN SubSeq(field, 3, Len(field)) ELSE field,
               IF hex THEN 16 ELSE 10)

TransitionalOctets(fields) ==
    [i \in 1..4 |-> TransitionalOctet(fields[i], IsHexLiteral(fields[i]))]

\* The six parts of the prefix and the two parts of the dotted quad.
TransitionalParts(six, o) ==
    IF six = Null \/ \E i \in 1..4 : o[i] < 0 \/ o[i] > 255 THEN Null
    ELSE [kind |-> "parts",
          parts |-> six.parts \o <<o[1] * 256 + o[2], o[3] * 256 + o[4]>>]

TransitionalMatch(prefix, fields, fourOctet) ==
    IF prefix = <<>> \/ ~fourOctet \/ ~IPv6NativeTest(prefix) THEN Null
    ELSE TransitionalParts(
             expandIPv6(IF EndsWith(prefix, <<":", ":">>) THEN prefix
                        ELSE SubSeq(prefix, 1, Len(prefix) - 1), 6),
             TransitionalOctets(fields))

TransitionalSplit(prefix, fields) ==
    TransitionalMatch(prefix, fields, IsFourOctet(fields))

TransitionalAt(s, k) ==
    TransitionalSplit(SubSeq(s, 1, k), Split(SubSeq(s, k + 1, Len(s)), "."))

\* ipv6Regexes.transitional: an IPv6 prefix ending in a colon, then a
\* dotted quad.
IPv6Transitional(s) == TransitionalAt(s, LastColon(s))

\* ipaddr.IPv6.parser: the deprecated "::a.b.c.d" is read as
\* "::ffff:a.b.c.d"; then the native form; then the transitional form.
IPv6ParserOf(s, native) ==
    IF native THEN expandIPv6(s, 8)
    ELSE IPv6Transitional(
             IF StartsWith(s, <<":", ":">>) /\ LastColon(s) = 2
             THEN <<":", ":", "f", "f", "f", "f", ":">> \o SubSeq(s, 3, Len(s))
             ELSE s)

IPv6Parser(s) == IPv6ParserOf(s, IPv6NativeTest(s))

\* The IPv6 constructor: eight parts in 0..0xffff, else it throws.
IPv6(a) ==
    IF a = Null THEN Null
    ELSE IF Len(a.parts) = 8 /\ \A i \in 1..8 : a.parts[i] >= 0 /\ a.parts[i] <= 65535
    THEN [kind |-> "ipv6", parts |-> a.parts]
    ELSE Null

\* ipaddr.IPv6.parse; IPv6.isValid refuses a string without a colon.
IPv6Parse(s) == IF \A k \in DOMAIN s : s[k] # ":" THEN Null ELSE IPv6(IPv6Parser(s))

FirstValid(a, b) == IF a # Null THEN a ELSE b

\* ipaddr.parse: IPv6 if valid as IPv6, else IPv4 if valid, else it throws.
parse(s) == FirstValid(IPv6Parse(s), IPv4Parse(s))

\* The /^(.+)\/(\d+)$/ of IPv4.parseCIDR and IPv6.parseCIDR at the last
\* slash k of s: the text before it and the digits after it.
CIDRMatchAt(s, k) ==
    IF k <= 1 \/ k = Len(s) \/ ~AllIn(SubSeq(s, k + 1, Len(s)), DecChars)
    THEN Null
    ELSE [kind |-> "match",
          ip |-> SubSeq(s, 1, k - 1),
          maskLength |-> ParseInt(SubSeq(s, k + 1, Len(s)), 10)]

CIDRMatch(s) ==
    CIDRMatchAt(s, IF \A k \in DOMAIN s : s[k] # "/" THEN 0
                   ELSE CHOOSE k \in DOMAIN s :
                            s[k] = "/" /\ \A j \in (k + 1)..Len(s) : s[j] # "/")

\* X.parseCIDR for one family: the prefix length within the family's
\* width and the address valid in that family.
FamilyCIDR(addr, maskLength, width) ==
    IF maskLength <= width /\ addr # Null
    THEN [kind |-> "cidr", addr |-> addr, bits |-> maskLength]
    ELSE Null

CIDROfMatch(m) ==
    IF m = Null THEN Null
    ELSE FirstValid(FamilyCIDR(IPv6Parse(m.ip), m.maskLength, 128),
                    FamilyCIDR(IPv4Parse(m.ip), m.maskLength, 32))

\* ipaddr.parseCIDR: IPv6.parseCIDR, else IPv4.parseCIDR, else it throws.
\* The result is [address, prefix length].
parseCIDR(s) == CIDROfMatch(CIDRMatch(s))

\* 2^n
RECURSIVE Pow2(_)
Pow2(n) == IF n = 0 THEN 1 ELSE 2 * Pow2(n - 1)

\* x >> shift
ShiftRight(x, shift) == x \div Pow2(shift)

\* matchCIDR's shift: partSize - cidrBits, at least 0.
ShiftOf(partSize, cidrBits) ==
    IF partSize - cidrBits < 0 THEN 0 ELSE partSize - cidrBits

\* matchCIDR(first, second, partSize, cidrBits), from part number `part` on.
RECURSIVE matchCIDRFrom(_, _, _, _, _)
matchCIDRFrom(first, second, partSize, cidrBits, part) ==
    IF cidrBits <= 0 THEN TRUE
    ELSE IF ShiftRight(first[part], ShiftOf(partSize, cidrBits))
              # ShiftRight(second[part], ShiftOf(partSize, cidrBits))
    THEN FALSE
    ELSE matchCIDRFrom(first, second, partSize, cidrBits - partSize, part + 1)

matchCIDR(first, second, partSize, cidrBits) ==
    matchCIDRFrom(first, second, partSize, cidrBits, 1)

\* IPv4.match([range, bits]) and IPv6.match([range, bits])
IPv4Match(addr, range, bits) == matchCIDR(addr.octets, range.octets, 8, bits)
IPv6Match(addr, range, bits) == matchCIDR(addr.parts, range.parts, 16, bits)

\* IPv6.isIPv4MappedAddress: the address is in ::ffff:0:0/96.
isIPv4MappedAddress(addr) ==
    matchCIDR(addr.parts, <<0, 0, 0, 0, 0, 65535, 0, 0>>, 16, 96)

\* IPv6.toIPv4Address: the four octets of the last two parts.
toIPv4Address(addr) ==
    [kind |-> "ipv4",
     octets |-> <<addr.parts[7] \div 256, addr.parts[7] % 256,
                  addr.parts[8] \div 256, addr.parts[8] % 256>>]

\* IPv4.toString: the octets in decimal, joined by dots.
IPv4ToString(addr) ==
    Join([i \in 1..4 |-> NumberToString(addr.octets[i])], <<".">>)

----------------------------------------------------------------------------
(* The texts the requests and the exit list responses are made of *)

\* the text 10.1.2.3
IPPlain == <<"1", "0", ".", "1", ".", "2", ".", "3">>
\* the text 10.1.2.03
IPOctal == <<"1", "0", ".", "1", ".", "2", ".", "0", "3">>
\* the text ::ffff:10.1.2.3
IPMapped ==
    <<":", ":", "f", "f", "f", "f", ":", "1", "0", ".", "1", ".", "2", ".",
    "3">>
\* the text 2001:db8::1
IPv6Doc == <<"2", "0", "0", "1", ":", "d", "b", "8", ":", ":", "1">>
\* the text 10.1.2.256
IPBad == <<"1", "0", ".", "1", ".", "2", ".", "2", "5", "6">>
\* the text 10.0.0.0/8
RangeTen == <<"1", "0", ".", "0", ".", "0", ".", "0", "/", "8">>
\* the text 10.1.2.3
RangeBare == <<"1", "0", ".", "1", ".", "2", ".", "3">>
\* the text 10.1.2.0/31
RangeNarrow == <<"1", "0", ".", "1", ".", "2", ".", "0", "/", "3", "1">>
\* the text ::/0
RangeAllV6 == <<":", ":", "/", "0">>
\* the text 
RangeEmpty == <<>>
\* the text  
RangeBlank == <<" ">>
\* the text 10.0.0.0/33
RangeBadPrefix == <<"1", "0", ".", "0", ".", "0", ".", "0", "/", "3", "3">>
\* the text ExitAddress
ExitAddressToken == <<"E", "x", "i", "t", "A", "d", "d", "r", "e", "s", "s">>
\* the text ExitNode F1 (newline) ExitAddress 10.1.2.3 d1 (newline) 
BodyOne ==
    <<"E", "x", "i", "t", "N", "o", "d", "e", " ", "F", "1", "\n", "E", "x",
    "i", "t", "A", "d", "d", "r", "e", "s", "s", " ", "1", "0", ".", "1",
    ".", "2", ".", "3", " ", "d", "1", "\n">>
\* the text ExitAddress 192.168.1.1 d2
BodyOther ==
    <<"E", "x", "i", "t", "A", "d", "d", "r", "e", "s", "s", " ", "1", "9",
    "2", ".", "1", "6", "8", ".", "1", ".", "1", " ", "d", "2">>
\* the text <html>503</html>
BodyHtml ==
    <<"<", "h", "t", "m", "l", ">", "5", "0", "3", "<", "/", "h", "t", "m",
    "l", ">">>

----------------------------------------------------------------------------
(* ipFilterTool.ts *)

TOR_CACHE_TTL == 60 * 60 * 1000

\* The value of line.split(' ')[1] when the line has no second field.
Undefined == <<"undefined">>

\* A template literal or a concatenation is the sequence of its pieces: a
\* string literal of the source is one element, an interpolated value is
\* its characters.
Literal(text) == <<text>>

\* The filter, map chain of fetchTorExitNodes: the second space-separated
\* field of every line that starts with ExitAddress.
SecondField(fields) == IF Len(fields) >= 2 THEN fields[2] ELSE Undefined

RECURSIVE ExitAddresses(_)
ExitAddresses(lines) ==
    IF lines = <<>> THEN <<>>
    ELSE (IF StartsWith(Head(lines), ExitAddressToken)
          THEN <<SecondField(Split(Head(lines), " "))>> ELSE <<>>)
             \o ExitAddresses(Tail(lines))

ParseExitNodes(text) == ExitAddresses(Split(text, "\n"))

\* AddrInRange without the branch for IPv4-mapped IPv6 addresses.
AddrInRangeNoMapped(addr, range) ==
    IF range = Null THEN FALSE
    ELSE IF addr.kind = "ipv4" /\ range.addr.kind = "ipv4"
         THEN IPv4Match(addr, range.addr, range.bits)
    ELSE IF addr.kind = "ipv6" /\ range.addr.kind = "ipv6"
         THEN IPv6Match(addr, range.addr, range.bits)
    ELSE FALSE

\* The family dispatch of isInCIDRRange (lines 97 to 131) for the parsed
\* address and the result of parseCIDR: TRUE when it returns {result: true}.
AddrInRange(addr, range) ==
    IF range = Null THEN FALSE
    ELSE IF addr.kind = "ipv4" /\ range.addr.kind = "ipv4"
         THEN IPv4Match(addr, range.addr, range.bits)
    ELSE IF addr.kind = "ipv6" /\ range.addr.kind = "ipv6"
         THEN IPv6Match(addr, range.addr, range.bits)
    ELSE IF addr.kind = "ipv6" /\ range.addr.kind = "ipv4"
         THEN /\ isIPv4MappedAddress(addr)
              /\ IPv4Match(toIPv4Address(addr), range.addr, range.bits)
    ELSE FALSE

\* processedCidr for a range literal without a slash whose address is
\* rangeAddr: /32 for IPv4, /128 for IPv6.
ProcessedCidr(cidr, rangeAddr) ==
    IF rangeAddr.kind = "ipv4" THEN cidr \o <<"/", "3", "2">>
    ELSE cidr \o <<"/", "1", "2", "8">>

\* A range literal without a slash: skipped when it does not parse.
BareRangeMatches(addr, cidr, rangeAddr) ==
    IF rangeAddr = Null THEN FALSE
    ELSE AddrInRange(addr, parseCIDR(ProcessedCidr(cidr, rangeAddr)))

\* One pass of the loop body of isInCIDRRange for the parsed address addr
\* and the range literal cidr: TRUE when the pass returns {result: true},
\* FALSE when it continues with the next range.
RangeMatches(addr, cidr) ==
    IF cidr = <<>> \/ Trim(cidr) = <<>> THEN FALSE
    ELSE IF Includes(cidr, "/") THEN AddrInRange(addr, parseCIDR(cidr))
    ELSE BareRangeMatches(addr, cidr, parse(cidr))

\* The loop of isInCIDRRange: the first matching range returns
\* {result: true}; the catch of a throwing parse returns the error.
CheckRanges(ipAddress, cidrRanges, addr) ==
    IF addr = Null
    THEN [result |-> FALSE,
          error |-> Literal("Invalid IP address: ") \o ipAddress]
    ELSE IF \E i \in DOMAIN cidrRanges : RangeMatches(addr, cidrRanges[i])
    THEN [result |-> TRUE]
    ELSE [result |-> FALSE]

isInCIDRRange(ipAddress, cidrRanges) ==
    CheckRanges(ipAddress, cidrRanges, parse(ipAddress))

\* ipPart of the validation loop: the text before the first slash.
IpPart(cidr) == Split(cidr, "/")[1]

\* The try block of the validation loop throws.
CidrThrows(cidr, hasSlash) ==
    \/ parse(IF hasSlash THEN IpPart(cidr) ELSE cidr) = Null
    \/ hasSlash /\ parseCIDR(cidr) = Null

\* IsInvalidCidr skipping an empty entry as isInCIDRRange does, instead of
\* pushing it.
IsInvalidCidrBlankSkipped(cidr) ==
    IF cidr = <<>> \/ Trim(cidr) = <<>> THEN FALSE
    ELSE CidrThrows(cidr, Includes(cidr, "/"))

\* The body of execute's validation loop: TRUE when cidr is pushed to
\* invalidCidrs.
IsInvalidCidr(cidr) ==
    IF cidr = <<>> \/ Trim(cidr) = <<>> THEN TRUE
    ELSE CidrThrows(cidr, Includes(cidr, "/"))

invalidCidrs(cidr_ranges) == SelectSeq(cidr_ranges, IsInvalidCidr)

\* The local cidrCheckResult before isInCIDRRange has been called.
NotCalled == [called |-> FALSE]

\* A return statement of execute: its line and the object it serialises.
Return(line, object, check) ==
    [line |-> line, out |-> object, cidrCheckResult |-> check]

\* AfterRangeCheck asking for the exit list check before it looks at the
\* result of the range check.
AfterRangeCheckTorFirst(a, check, hasError) ==
    IF a.check_tor
    THEN [line |-> 242, cidrCheckResult |-> check]
    ELSE IF ~check.result \/ hasError
    THEN Return(219,
                [result |-> FALSE,
                 error |-> IF hasError THEN check.error
                           ELSE Literal("IP address is not in any of the valid CIDR ranges")],
                check)
    ELSE Return(232, [result |-> TRUE], check)

\* execute from line 216: the range check, the early return and the call
\* of isTorExitNode.
AfterRangeCheck(a, check, hasError) ==
    IF ~check.result \/ hasError
    THEN Return(219,
                [result |-> FALSE,
                 error |-> IF hasError THEN check.error
                           ELSE Literal("IP address is not in any of the valid CIDR ranges")],
                check)
    ELSE IF check.result /\ ~a.check_tor
    THEN Return(232, [result |-> TRUE], check)
    ELSE IF a.check_tor
    THEN [line |-> 242, cidrCheckResult |-> check]
    ELSE Return(257, [result |-> check.result], check)

RangeCheck(a, check) == AfterRangeCheck(a, check, "error" \in DOMAIN check)

\* execute up to line 214: the three validations.
Validate(a, addr, invalid) ==
    IF addr = Null
    THEN Return(155, [result |-> FALSE,
                      error |-> Literal("Invalid IP address format: ")
                                    \o a.ip_address], NotCalled)
    ELSE IF Len(a.cidr_ranges) = 0
    THEN Return(168, [result |-> FALSE,
                      error |-> Literal("No CIDR ranges provided")], NotCalled)
    ELSE IF Len(invalid) > 0
    THEN Return(205, [result |-> FALSE,
                      error |-> Literal("Invalid CIDR ranges: ")
                                    \o Join(invalid, <<",", " ">>)], NotCalled)
    ELSE RangeCheck(a, isInCIDRRange(a.ip_address, a.cidr_ranges))

\* execute from its entry to its first return statement or to its await
\* of isTorExitNode (line 242).
ExecuteSync(a) == Validate(a, parse(a.ip_address), invalidCidrs(a.cidr_ranges))

\* isTorExitNode's exitNodes.includes(ipAddress)
ListIncludes(exitNodes, ipAddress) ==
    \E i \in DOMAIN exitNodes : exitNodes[i] = ipAddress

\* ExecuteResume adding the error to the result of the range check instead
\* of returning result: false.
ExecuteResumeKeepsResult(a, check, exitNodes) ==
    IF ListIncludes(exitNodes, a.ip_address)
    THEN Return(244, [result |-> check.result,
                      error |-> Literal("IP address ") \o a.ip_address
                                    \o Literal(" is a Tor exit node")], check)
    ELSE Return(257, [result |-> check.result], check)

\* execute after its await of isTorExitNode: lines 243 to 262.
ExecuteResume(a, check, exitNodes) ==
    IF ListIncludes(exitNodes, a.ip_address)
    THEN Return(244, [result |-> FALSE,
                      error |-> Literal("IP address ") \o a.ip_address
                                    \o Literal(" is a Tor exit node")], check)
    ELSE Return(257, [result |-> check.result], check)

----------------------------------------------------------------------------
(* State *)

VARIABLES
    torExitNodes,     \* the cached exit list
    lastTorFetch,     \* the Date.now() of the fetch that filled it
    clock,            \* Date.now()
    pc,               \* where each evaluation stands
    args,             \* its request
    now,              \* fetchTorExitNodes' local now
    exitNodes,        \* the list fetchTorExitNodes resolved with
    cidrCheckResult,  \* execute's local cidrCheckResult
    ret,              \* the return statement taken and the object returned
    lastInstall       \* history: the list and now of the last refresh that
                      \* reached the cache update

vars == <<torExitNodes, lastTorFetch, clock, pc, args, now, exitNodes,
          cidrCheckResult, ret, lastInstall>>

cache == <<torExitNodes, lastTorFetch, lastInstall>>
locals == <<args, now, exitNodes, cidrCheckResult, ret>>

\* Bounds
MaxTicks == 4
MaxRanges == 2

\* The concurrent evaluations of Spec.
Procs == {1, 2}

\* Date.now() is far above TOR_CACHE_TTL in any run, so that the initial
\* lastTorFetch = 0 never counts as fresh; the clock starts at TOR_CACHE_TTL,
\* which keeps that, and advances by half a TTL.
StartClock == TOR_CACHE_TTL
ClockStep == TOR_CACHE_TTL \div 2

IPTexts == {IPPlain, IPOctal, IPMapped, IPv6Doc, IPBad}
RangeTexts == {RangeTen, RangeBare, RangeNarrow, RangeAllV6,
               RangeEmpty, RangeBlank, RangeBadPrefix}
Bodies == {BodyOne, BodyOther, BodyHtml}

RangeLists == UNION {[1..n -> RangeTexts] : n \in 0..MaxRanges}

\* The requests of SpecEval: every address text against every range list.
Requests == [ip_address : IPTexts, cidr_ranges : RangeLists, check_tor : BOOLEAN]

\* The requests of Spec: one that reaches the exit list check, one that
\* matches without it and one that no range matches.
FewRequests ==
    {[ip_address |-> IPPlain, cidr_ranges |-> <<RangeTen>>, check_tor |-> TRUE],
     [ip_address |-> IPPlain, cidr_ranges |-> <<RangeTen>>, check_tor |-> FALSE],
     [ip_address |-> IPPlain, cidr_ranges |-> <<RangeNarrow>>, check_tor |-> TRUE]}

NoArgs == [ip_address |-> <<>>, cidr_ranges |-> <<>>, check_tor |-> FALSE]
NoReturn == [line |-> 0]
NoInstall == [installed |-> FALSE]

Init ==
    /\ torExitNodes = <<>>
    /\ lastTorFetch = 0
    /\ clock = StartClock
    /\ pc = [p \in Procs |-> "idle"]
    /\ args = [p \in Procs |-> NoArgs]
    /\ now = [p \in Procs |-> 0]
    /\ exitNodes = [p \in Procs |-> <<>>]
    /\ cidrCheckResult = [p \in Procs |-> NotCalled]
    /\ ret = [p \in Procs |-> NoReturn]
    /\ lastInstall = NoInstall

----------------------------------------------------------------------------
(* fetchTorExitNodes *)

\* The cache-valid test of line 26, with now the caller's Date.now().
CacheValid(t) == Len(torExitNodes) > 0 /\ (t - lastTorFetch) < TOR_CACHE_TTL

\* UpdateCache without line 43: the list is replaced and the timestamp
\* is left.
UpdateCacheListOnly(list, t) ==
    [torExitNodes |-> list, lastTorFetch |-> lastTorFetch]

\* The cache update of lines 42 and 43, which run with no await between.
UpdateCache(list, t) == [torExitNodes |-> list, lastTorFetch |-> t]

\* The catch block: the cached list if there is one, else [].
CatchResult == IF Len(torExitNodes) > 0 THEN torExitNodes ELSE <<>>

----------------------------------------------------------------------------
(* Actions *)

\* The entry of fetchTorExitNodes for evaluation p: the cached list (the
\* caller then waits at the await of line 60 on a resolved promise), or
\* the remote fetch of line 32 is started.
FetchTorExitNodes(p, valid) ==
    IF valid
    THEN /\ pc' = [pc EXCEPT ![p] = "awaitList"]
         /\ exitNodes' = [exitNodes EXCEPT ![p] = torExitNodes]
         /\ UNCHANGED now
    ELSE /\ pc' = [pc EXCEPT ![p] = "fetching"]
         /\ now' = [now EXCEPT ![p] = clock]
         /\ UNCHANGED exitNodes

\* execute has run to r: a return statement, or the call of isTorExitNode.
Ran(p, a, r) ==
    /\ args' = [args EXCEPT ![p] = a]
    /\ cidrCheckResult' = [cidrCheckResult EXCEPT ![p] = r.cidrCheckResult]
    /\ IF r.line # 242
       THEN /\ pc' = [pc EXCEPT ![p] = "done"]
            /\ ret' = [ret EXCEPT ![p] = [line |-> r.line, out |-> r.out]]
            /\ UNCHANGED <<now, exitNodes>>
       ELSE /\ FetchTorExitNodes(p, CacheValid(clock))
            /\ UNCHANGED ret

\* A request arrives and execute runs until it returns or awaits.
Execute(p, a) ==
    /\ pc[p] = "idle"
    /\ Ran(p, a, ExecuteSync(a))
    /\ UNCHANGED <<cache, clock>>

\* The remote fetch of line 32 answers; the body is awaited at line 33.
FetchResolve(p) ==
    /\ pc[p] = "fetching"
    /\ pc' = [pc EXCEPT ![p] = "reading"]
    /\ UNCHANGED <<cache, clock, locals>>

\* The remote fetch or the body read rejects: the catch block.
FetchReject(p) ==
    /\ pc[p] \in {"fetching", "reading"}
    /\ pc' = [pc EXCEPT ![p] = "awaitList"]
    /\ exitNodes' = [exitNodes EXCEPT ![p] = CatchResult]
    /\ UNCHANGED <<cache, clock, args, now, cidrCheckResult, ret>>

\* Lines 41 to 45 for the parsed list.
Install(p, list, new) ==
    /\ torExitNodes' = new.torExitNodes
    /\ lastTorFetch' = new.lastTorFetch
    /\ lastInstall' = [installed |-> TRUE, list |-> list, now |-> now[p]]
    /\ exitNodes' = [exitNodes EXCEPT ![p] = list]

Parsed(p, list) == Install(p, list, UpdateCache(list, now[p]))

\* The body arrives: lines 36 to 45.
TextResolve(p, text) ==
    /\ pc[p] = "reading"
    /\ Parsed(p, ParseExitNodes(text))
    /\ pc' = [pc EXCEPT ![p] = "awaitList"]
    /\ UNCHANGED <<clock, args, now, cidrCheckResult, ret>>

Resumed(p, r) ==
    ret' = [ret EXCEPT ![p] = [line |-> r.line, out |-> r.out]]

\* isTorExitNode and execute continue with the list: lines 61 and 243 on.
Resume(p) ==
    /\ pc[p] = "awaitList"
    /\ Resumed(p, ExecuteResume(args[p], cidrCheckResult[p], exitNodes[p]))
    /\ pc' = [pc EXCEPT ![p] = "done"]
    /\ UNCHANGED <<cache, clock, args, now, exitNodes, cidrCheckResult>>

\* The result has been delivered; the evaluation's locals are gone.
Deliver(p) ==
    /\ pc[p] = "done"
    /\ pc' = [pc EXCEPT ![p] = "idle"]
    /\ args' = [args EXCEPT ![p] = NoArgs]
    /\ now' = [now EXCEPT ![p] = 0]
    /\ exitNodes' = [exitNodes EXCEPT ![p] = <<>>]
    /\ cidrCheckResult' = [cidrCheckResult EXCEPT ![p] = NotCalled]
    /\ ret' = [ret EXCEPT ![p] = NoReturn]
    /\ UNCHANGED <<cache, clock>>

\* Time passes.
Tick ==
    /\ clock < StartClock + MaxTicks * ClockStep
    /\ clock' = clock + ClockStep
    /\ UNCHANGED <<cache, pc, locals>>

Next ==
    \/ \E p \in Procs, a \in FewRequests : Execute(p, a)
    \/ \E p \in Procs : FetchResolve(p)
    \/ \E p \in Procs : FetchReject(p)
    \/ \E p \in Procs, text \in Bodies : TextResolve(p, text)
    \/ \E p \in Procs : Resume(p)
    \/ \E p \in Procs : Deliver(p)
    \/ Tick

Spec == Init /\ [][Next]_vars

----------------------------------------------------------------------------
(* One evaluation of any request, from any state of the cache *)

\* The cache as some earlier refresh can have left it: never filled; filled
\* at StartClock with a list, which is fresh until the clock has advanced
\* by a TTL.
InitEval ==
    /\ \/ /\ torExitNodes = <<>>
          /\ lastTorFetch = 0
          /\ lastInstall = NoInstall
          /\ clock = StartClock
       \/ /\ torExitNodes = ParseExitNodes(BodyOne)
          /\ lastTorFetch = StartClock
          /\ lastInstall = [installed |-> TRUE, list |-> torExitNodes,
                            now |-> StartClock]
          /\ clock \in {StartClock + ClockStep, StartClock + 2 * ClockStep}
    /\ pc = [p \in Procs |-> "idle"]
    /\ args = [p \in Procs |-> NoArgs]
    /\ now = [p \in Procs |-> 0]
    /\ exitNodes = [p \in Procs |-> <<>>]
    /\ cidrCheckResult = [p \in Procs |-> NotCalled]
    /\ ret = [p \in Procs |-> NoReturn]

NextEval ==
    \/ \E a \in Requests : Execute(1, a)
    \/ FetchResolve(1)
    \/ FetchReject(1)
    \/ \E text \in Bodies : TextResolve(1, text)
    \/ Resume(1)

SpecEval == InitEval /\ [][NextEval]_vars

----------------------------------------------------------------------------
(* The notions the properties are stated in *)

\* Bit number i (1 is the highest) of an address whose parts have
\* partSize bits.
BitOf(parts, partSize, i) ==
    (parts[((i - 1) \div partSize) + 1]
         \div Pow2(partSize - 1 - ((i - 1) % partSize))) % 2

\* The bits of an address, highest first.
BitsOf(addr) ==
    IF addr.kind = "ipv4"
    THEN [i \in 1..32 |-> BitOf(addr.octets, 8, i)]
    ELSE [i \in 1..128 |-> BitOf(addr.parts, 16, i)]

\* A range literal parses as a range: a bare address, or address/prefix
\* with the prefix within the family's width.
ParsesAsRange(text) ==
    IF Includes(text, "/") THEN parseCIDR(text) # Null ELSE parse(text) # Null

\* The range of a literal that parses: a bare address is the single-host
\* range of its family.
RangeOf(text) ==
    IF Includes(text, "/") THEN parseCIDR(text)
    ELSE [kind |-> "cidr", addr |-> parse(text),
          bits |-> IF parse(text).kind = "ipv4" THEN 32 ELSE 128]

\* The address is in the range: the top `bits` bits agree.
Contains(rangeBits, bits, addrBits) ==
    \A i \in 1..bits : addrBits[i] = rangeBits[i]

\* The IPv4-mapped IPv6 addresses: 80 zero bits, then 16 one bits.
IsMappedBits(b) ==
    (\A i \in 1..80 : b[i] = 0) /\ (\A i \in 81..96 : b[i] = 1)

\* RangeMatcher.matches of the specification.
Matches(addr, range) ==
    IF addr.kind = range.addr.kind
    THEN Contains(BitsOf(range.addr), range.bits, BitsOf(addr))
    ELSE IF addr.kind = "ipv6" /\ range.addr.kind = "ipv4"
    THEN /\ IsMappedBits(BitsOf(addr))
         /\ Contains(BitsOf(range.addr), range.bits,
                     [i \in 1..32 |-> BitsOf(addr)[96 + i]])
    ELSE FALSE

\* The request passes steps 1 to 4: the address parses, the range list is
\* not empty, every entry parses as a range and some range matches.
PassesRanges(a) ==
    /\ parse(a.ip_address) # Null
    /\ a.cidr_ranges # <<>>
    /\ \A i \in DOMAIN a.cidr_ranges : ParsesAsRange(a.cidr_ranges[i])
    /\ \E i \in DOMAIN a.cidr_ranges :
           Matches(parse(a.ip_address), RangeOf(a.cidr_ranges[i]))

\* n in hexadecimal.
RECURSIVE NumberToHex(_)
NumberToHex(n) ==
    IF n < 16 THEN <<HexDigits[n + 1]>>
    ELSE NumberToHex(n \div 16) \o <<HexDigits[(n % 16) + 1]>>

\* The canonical text of an IPv6 address (RFC 5952): the first longest run
\* of two or more zero parts is written "::".
IPv6ToString(addr) ==
    LET hex == [i \in 1..8 |-> NumberToHex(addr.parts[i])]
        runs == {r \in (1..8) \X (2..8) :
                    /\ r[1] + r[2] - 1 <= 8
                    /\ \A i \in r[1]..(r[1] + r[2] - 1) : addr.parts[i] = 0}
        best == CHOOSE r \in runs :
                    \A q \in runs : q[2] < r[2] \/ (q[2] = r[2] /\ q[1] >= r[1])
    IN  IF runs = {} THEN Join(hex, <<":">>)
        ELSE Join(SubSeq(hex, 1, best[1] - 1), <<":">>) \o <<":", ":">>
                 \o Join(SubSeq(hex, best[1] + best[2], 8), <<":">>)

\* The canonical text form of a parsed address.
CanonicalText(addr) ==
    IF addr.kind = "ipv4" THEN IPv4ToString(addr) ELSE IPv6ToString(addr)

\* DenylistCache.isListed of the specification.
IsListed(addr, snapshot) ==
    \E i \in DOMAIN snapshot : snapshot[i] = CanonicalText(addr)

Done(p) == pc[p] = "done"

\* The evaluation went through isTorExitNode: it returned from line 244
\* or from line 257.
CheckedTor(p) == Done(p) /\ ret[p].line \in {244, 257}

----------------------------------------------------------------------------
(* C1 *)

\* C1: execute returns result = true exactly when the address parses, the
\* range list is not empty, every entry parses as a range, some range
\* matches, and check_tor is false or the address is not listed in the
\* snapshot the evaluation was given.
C1_TrueIffAdmissible ==
    \A p \in Procs :
        Done(p) =>
            (ret[p].out.result
                <=> /\ PassesRanges(args[p])
                    /\ \/ ~args[p].check_tor
                       \/ ~IsListed(parse(args[p].ip_address), exitNodes[p]))

\* The same with "listed" read as the code reads it: the text of the
\* request is an element of the list.
VerdictByRequestText ==
    \A p \in Procs :
        Done(p) =>
            (ret[p].out.result
                <=> /\ PassesRanges(args[p])
                    /\ \/ ~args[p].check_tor
                       \/ ~ListIncludes(exitNodes[p], args[p].ip_address))

----------------------------------------------------------------------------
(* C2 *)

\* The entries of a range list that do not parse as a range.
NotRanges(cidr_ranges) ==
    SelectSeq(cidr_ranges, LAMBDA text : ~ParsesAsRange(text))

MalformedRequest(a) ==
    /\ parse(a.ip_address) # Null
    /\ a.cidr_ranges # <<>>
    /\ NotRanges(a.cidr_ranges) # <<>>

\* C2: a request with a valid address and a range list with an entry that
\* does not parse as a range returns from the validation with result =
\* false and an error listing exactly the invalid entries, verbatim and in
\* order; isInCIDRRange is not called, and no such evaluation is ever
\* waiting for the exit list.
C2_FailClosed ==
    \A p \in Procs :
        /\ (Done(p) /\ MalformedRequest(args[p])) =>
               /\ ret[p].line = 205
               /\ ret[p].out =
                      [result |-> FALSE,
                       error |-> Literal("Invalid CIDR ranges: ")
                                     \o Join(NotRanges(args[p].cidr_ranges),
                                             <<",", " ">>)]
               /\ cidrCheckResult[p] = NotCalled
               /\ exitNodes[p] = <<>>
        /\ pc[p] \in {"fetching", "reading", "awaitList"} =>
               NotRanges(args[p].cidr_ranges) = <<>>

\* An invalid entry next to a valid one that contains the address.
C2_Witness ==
    \E p \in Procs :
        /\ Done(p)
        /\ ret[p].line = 205
        /\ args[p].ip_address = IPPlain
        /\ args[p].cidr_ranges = <<RangeBlank, RangeTen>>

----------------------------------------------------------------------------
(* C3 *)

\* Evaluation p calls fetchTorExitNodes in this step.
CallsFetchTorExitNodes(p) ==
    pc[p] = "idle" /\ pc'[p] \in {"awaitList", "fetching"}

Fresh == clock - lastTorFetch < TOR_CACHE_TTL

\* C3 as stated: once a successful fetch has installed a snapshot, whatever
\* its list, a call made while now - lastTorFetch < TTL returns the cached
\* list and starts no fetch.
C3_FreshAfterAnyInstall ==
    [][\A p \in Procs :
           (CallsFetchTorExitNodes(p) /\ lastInstall.installed /\ Fresh) =>
               (pc'[p] = "awaitList" /\ exitNodes'[p] = torExitNodes)]_vars

\* What line 26 does keep of C3: a call made while the stored list is not
\* empty and now - lastTorFetch < TTL returns the stored list and starts no
\* fetch, and a fetch is started only when the stored list is empty or the
\* TTL has elapsed.
C3_FreshNonEmpty ==
    [][\A p \in Procs :
           CallsFetchTorExitNodes(p) =>
               IF Len(torExitNodes) > 0 /\ Fresh
               THEN pc'[p] = "awaitList" /\ exitNodes'[p] = torExitNodes
                    /\ UNCHANGED <<torExitNodes, lastTorFetch>>
               ELSE pc'[p] = "fetching"]_vars

\* An evaluation holds the cached list without having fetched, half a TTL
\* after a refresh installed it.
C3_Witness ==
    \E p \in Procs :
        /\ pc[p] = "awaitList"
        /\ now[p] = 0
        /\ lastInstall.installed
        /\ Len(torExitNodes) > 0
        /\ exitNodes[p] = torExitNodes
        /\ clock - lastTorFetch = ClockStep

----------------------------------------------------------------------------
(* C4 *)

\* The body has no exit address line: it is not a denylist.
NotADenylist(text) ==
    \A i \in DOMAIN Split(text, "\n") :
        ~StartsWith(Split(text, "\n")[i], ExitAddressToken)

\* Evaluation p's refresh fails in this step: the fetch or the body read
\* rejects, or the body that arrives is not a denylist.
RefreshFails(p) ==
    \/ FetchReject(p)
    \/ \E text \in Bodies : NotADenylist(text) /\ TextResolve(p, text)

\* C4: a failed refresh does not raise; with a previous snapshot it leaves
\* the stored list and timestamp as they were and gives its caller the
\* stored list, and with none it gives the empty list.
C4_StaleOnFailure ==
    [][\A p \in Procs :
           RefreshFails(p) =>
               /\ pc'[p] = "awaitList"
               /\ IF Len(torExitNodes) > 0
                  THEN /\ UNCHANGED <<torExitNodes, lastTorFetch>>
                       /\ exitNodes'[p] = torExitNodes
                  ELSE exitNodes'[p] = <<>>]_vars

----------------------------------------------------------------------------
(* C5 *)

\* C5: an evaluation that asked for the exit list check and passed the
\* range match is rejected as listed exactly when the canonical text of its
\* parsed address is an entry of the snapshot it was given.
C5_ListedByCanonicalText ==
    \A p \in Procs :
        CheckedTor(p) =>
            (ret[p].line = 244
                <=> IsListed(parse(args[p].ip_address), exitNodes[p]))

----------------------------------------------------------------------------
(* C6 *)

\* C6: the stored list and timestamp are the initial pair, or the list and
\* the now of one refresh, written together.
C6_AtomicReplace ==
    IF lastInstall.installed
    THEN torExitNodes = lastInstall.list /\ lastTorFetch = lastInstall.now
    ELSE torExitNodes = <<>> /\ lastTorFetch = 0

\* A refresh has replaced the snapshot while another, started at another
\* time, is still reading its body.
C6_Witness ==
    /\ lastInstall.installed
    /\ \E p \in Procs : pc[p] = "reading" /\ now[p] # lastTorFetch

----------------------------------------------------------------------------
(* C7 *)

AllOfKind(cidr_ranges, kind) ==
    \A i \in DOMAIN cidr_ranges : RangeOf(cidr_ranges[i]).addr.kind = kind

\* isInCIDRRange has been called by evaluation p, whose address is addr.
RangesChecked(p) == cidrCheckResult[p] # NotCalled

\* C7: against IPv4 ranges, an IPv4-mapped IPv6 candidate matches exactly
\* when its embedded IPv4 address matches, and any other IPv6 candidate
\* does not match; an IPv4 candidate matches no IPv6 range.
C7_MappedReconciliation ==
    \A p \in Procs :
        RangesChecked(p) =>
            /\ (parse(args[p].ip_address).kind = "ipv6"
                    /\ AllOfKind(args[p].cidr_ranges, "ipv4")) =>
                   (cidrCheckResult[p].result
                       <=> /\ isIPv4MappedAddress(parse(args[p].ip_address))
                           /\ \E i \in DOMAIN args[p].cidr_ranges :
                                  Matches(toIPv4Address(parse(args[p].ip_address)),
                                          RangeOf(args[p].cidr_ranges[i])))
            /\ (parse(args[p].ip_address).kind = "ipv4"
                    /\ AllOfKind(args[p].cidr_ranges, "ipv6")) =>
                   ~cidrCheckResult[p].result

\* The mapped form of 10.1.2.3 has matched 10.0.0.0/8.
C7_Witness ==
    \E p \in Procs :
        /\ RangesChecked(p)
        /\ args[p].ip_address = IPMapped
        /\ args[p].cidr_ranges = <<RangeTen>>
        /\ cidrCheckResult[p].result

----------------------------------------------------------------------------
(* C8 *)

\* C8: every returned object has a boolean result, and an error only when
\* the result is false.
C8_WellFormedResult ==
    \A p \in Procs :
        Done(p) =>
            /\ ret[p].line # 0
            /\ "result" \in DOMAIN ret[p].out
            /\ DOMAIN ret[p].out \subseteq {"result", "error"}
            /\ ret[p].out.result \in BOOLEAN
            /\ "error" \in DOMAIN ret[p].out => ~ret[p].out.result

\* An evaluation has returned result = true after a failed fetch gave it
\* the stale list.
C8_Witness ==
    \E p \in Procs :
        /\ Done(p)
        /\ ret[p].line = 257
        /\ ret[p].out = [result |-> TRUE]
        /\ now[p] # 0
        /\ exitNodes[p] # <<>>
        /\ lastTorFetch # now[p]

----------------------------------------------------------------------------
(* C9 *)

\* The request reaches step 5: it asks for the exit list check and passes
\* steps 1 to 4.
ReachesTorCheck(a) == a.check_tor /\ PassesRanges(a)

\* C9: an evaluation that does not reach step 5 returns in the step it
\* starts in, without calling fetchTorExitNodes and with the snapshot and
\* timestamp as they were; only evaluations that reach step 5 ever wait.
C9_TorOnlyAtStepFive ==
    [][\A p \in Procs :
           /\ (pc[p] = "idle" /\ pc'[p] # "idle" /\ ~ReachesTorCheck(args'[p])) =>
                  /\ pc'[p] = "done"
                  /\ exitNodes'[p] = <<>> /\ now'[p] = 0
                  /\ UNCHANGED <<torExitNodes, lastTorFetch>>
           /\ pc'[p] \in {"fetching", "reading", "awaitList"} =>
                  ReachesTorCheck(args'[p])]_vars

\* A request with check_tor that no range matches has returned.
C9_Witness ==
    \E p \in Procs :
        /\ Done(p)
        /\ args[p].check_tor
        /\ ret[p].line = 219

----------------------------------------------------------------------------
(* C10 *)

\* C10: the stored fetch timestamp never decreases.
C10_TimestampMonotonic == [][lastTorFetch' >= lastTorFetch]_vars

====
